---- MODULE Spec2Model ----
(***************************************************************************)
(* Cognitive-complexity rule of eslint-plugin-sonarjs                      *)
(* (src/rules/cognitive-complexity.ts) as a state machine.                 *)
(*                                                                         *)
(* The rule is a set of listeners that ESLint calls while it walks the     *)
(* syntax tree of one file depth first.  The model walks a tree that is    *)
(* chosen while it is walked: every step either enters a child of the      *)
(* innermost open node or leaves the innermost open node.  For one node    *)
(* ESLint calls the listeners in the order "*", ":function", node type on  *)
(* entry and "*:exit", ":function:exit", "<type>:exit" on exit (listeners  *)
(* are ordered by selector specificity, ties by the selector text, and     *)
(* "*" sorts before ":function").  One action is one entry or one exit,    *)
(* with every listener that fires for it.                                  *)
(*                                                                         *)
(* Nodes that no listener reacts to and that are not in nestingNodes       *)
(* (identifiers, literals, expression statements, the block that is a      *)
(* function body...) change nothing; they are walked only where a parent   *)
(* names them (an operand, a test) and are otherwise left out.             *)
(***************************************************************************)
EXTENDS Integers, Sequences, FiniteSets, TLC

\* Bounds of the model.
MaxNodes == 5          \* nodes of the tree besides Program
MaxCases == 1          \* case clauses of one switch
MaxChain == 3          \* logical nodes of one && / || chain
MaxChildren == 2       \* children of one node that takes any number
MaxDeepNodes == 7      \* nodes besides Program of the trees of DeepSpec
MaxTwiceNodes == 4     \* nodes besides Program of the trees of TwiceSpec

\* Program constants.
DEFAULT_THRESHOLD == 15

\* context.options (meta.schema): a threshold, an integer >= 0 (<<>> when
\* options[0] is undefined), and the internal parameter or none
Options == { [threshold |-> <<1>>, internal |-> "none"],
             [threshold |-> <<1>>, internal |-> "metric"] }

VARIABLES
  \* ---- state of create()'s closure
  threshold,                        \* const threshold
  isFileComplexity,                 \* const isFileComplexity
  fileComplexity,
  complexityIfNotNested,           \* a reference into heap
  complexityIfNested,               \* a reference into heap
  heap,                             \* the arrays that are shared by reference
  nesting,
  topLevelHasStructuralComplexity,
  topLevelOwnComplexity,
  nestingNodes,
  consideredLogicalExpressions,
  enclosingFunctions,
  secondLevelFunctions,
  \* ---- what the rule hands to ESLint
  issues,                           \* report(...) calls of checkFunction
  metricReport,                     \* context.report of Program:exit
  \* ---- the walk (ESLint's traverser)
  pc,                               \* "start", "walk", "done"
  stack,                            \* open nodes, outermost first
  nextId,                           \* next unused node identity
  size,                             \* nodes of the tree walked, besides Program
  run,                              \* 0: the one walk of a tree; 1, 2: the first and
                                    \* the second of two walks of a tree
  script,                           \* the tree: the nodes entered and left in walk 1,
                                    \* those still to come in walk 2
  first,                            \* what walk 1 handed to ESLint
  \* ---- history
  log,                              \* every point recorded, in order
  evals,                            \* every checkFunction call, in order
  functions,                        \* every function entered, in order, with its depth
                                    \* and the nesting after its entry
  last                              \* the step just taken

vars == <<threshold, isFileComplexity, fileComplexity, complexityIfNotNested,
          complexityIfNested, heap, nesting, topLevelHasStructuralComplexity,
          topLevelOwnComplexity, nestingNodes, consideredLogicalExpressions,
          enclosingFunctions, secondLevelFunctions, issues, metricReport,
          pc, stack, nextId, size, run, script, first, log, evals, functions, last>>

NoId == 0
ProgramId == 1

(***************************************************************************)
(* Small helpers                                                           *)
(***************************************************************************)
RECURSIVE SumComplexity(_)
\* complexity.reduce((acc, cur) => acc + cur.complexity, 0)
SumComplexity(s) == IF s = <<>> THEN 0 ELSE Head(s).complexity + SumComplexity(Tail(s))

Last(s) == s[Len(s)]
Front(s) == SubSeq(s, 1, Len(s) - 1)

\* A source location: a token of a node.
Loc(id, tok) == [node |-> id, token |-> tok]

(***************************************************************************)
(* Recording points: addStructuralComplexity, addComplexity                *)
(*                                                                         *)
(* The functions of the closure are operators on the values they read and  *)
(* write.  `a` holds the variables the two add functions write; `nest` is  *)
(* the value of nesting and `fns` the value of enclosingFunctions when the *)
(* call is made.  A point carries, besides the fields of ComplexityPoint,  *)
(* the index `seq` of its entry in the history log.                        *)
(*                                                                         *)
(* complexityIfNested and complexityIfNotNested are arrays that the        *)
(* records of secondLevelFunctions keep a reference to, so the two         *)
(* variables hold references and `heap` maps a reference to the array's    *)
(* content: push writes the array in place, `= []` makes a new one.        *)
(***************************************************************************)
Acc == [fileComplexity |-> fileComplexity,
        topLevelHasStructuralComplexity |-> topLevelHasStructuralComplexity,
        topLevelOwnComplexity |-> topLevelOwnComplexity,
        complexityIfNested |-> complexityIfNested,
        complexityIfNotNested |-> complexityIfNotNested,
        heap |-> heap,
        log |-> log]

ComplexityPoint(complexity, location, seq) ==
  [complexity |-> complexity, location |-> location, seq |-> seq]

\* History: one entry per call of addStructuralComplexity / addComplexity.
Logged(a, amount, location, structural, fns) ==
  [a EXCEPT !.log = Append(@, [complexity |-> amount, location |-> location,
                               structural |-> structural, fns |-> fns])]

\* Added without the nesting level
AddedNoNesting(nest) == 1

\* const added = nesting + 1
Added(nest) == nest + 1

\* NestedAmount without the extra nesting unit
NestedAmountSame(added) == added

\* { complexity: added + 1, location }
NestedAmount(added) == added + 1

\* addStructuralComplexity with a last branch that takes only the second
\* level function itself, not the functions inside it
addStructuralComplexityTwoLevels(a, location, nest, fns) ==
  LET added == Added(nest)
      seq == Len(a.log) + 1
      complexityPoint == ComplexityPoint(added, location, seq)
      b == Logged(a, added, location, TRUE, fns)
  IN  IF Len(fns) = 0
        THEN [b EXCEPT !.fileComplexity = @ + added]
      ELSE IF Len(fns) = 1
        THEN [b EXCEPT !.topLevelHasStructuralComplexity = TRUE,
                       !.topLevelOwnComplexity = Append(@, complexityPoint)]
      ELSE IF Len(fns) = 2
        THEN [b EXCEPT !.heap[b.complexityIfNested] =
                          Append(@, ComplexityPoint(NestedAmount(added), location, seq)),
                       !.heap[b.complexityIfNotNested] = Append(@, complexityPoint)]
      ELSE b

\* addStructuralComplexity with a last branch that sets the flag of the top
\* level function too
addStructuralComplexityFlagged(a, location, nest, fns) ==
  LET added == Added(nest)
      seq == Len(a.log) + 1
      complexityPoint == ComplexityPoint(added, location, seq)
      b == Logged(a, added, location, TRUE, fns)
  IN  IF Len(fns) = 0
        THEN [b EXCEPT !.fileComplexity = @ + added]
      ELSE IF Len(fns) = 1
        THEN [b EXCEPT !.topLevelHasStructuralComplexity = TRUE,
                       !.topLevelOwnComplexity = Append(@, complexityPoint)]
      ELSE [b EXCEPT !.topLevelHasStructuralComplexity = TRUE,
                     !.heap[b.complexityIfNested] =
                        Append(@, ComplexityPoint(NestedAmount(added), location, seq)),
                     !.heap[b.complexityIfNotNested] = Append(@, complexityPoint)]

addStructuralComplexity(a, location, nest, fns) ==
  LET added == Added(nest)
      seq == Len(a.log) + 1
      complexityPoint == ComplexityPoint(added, location, seq)
      b == Logged(a, added, location, TRUE, fns)
  IN  IF Len(fns) = 0
        THEN [b EXCEPT !.fileComplexity = @ + added]
      ELSE IF Len(fns) = 1
        THEN [b EXCEPT !.topLevelHasStructuralComplexity = TRUE,
                       !.topLevelOwnComplexity = Append(@, complexityPoint)]
      ELSE [b EXCEPT !.heap[b.complexityIfNested] =
                        Append(@, ComplexityPoint(NestedAmount(added), location, seq)),
                     !.heap[b.complexityIfNotNested] = Append(@, complexityPoint)]

\* addComplexity with a first branch that keeps the point of the file scope
\* in the own-point list too
addComplexityKept(a, location, fns) ==
  LET seq == Len(a.log) + 1
      complexityPoint == ComplexityPoint(1, location, seq)
      b == Logged(a, 1, location, FALSE, fns)
  IN  IF Len(fns) = 0
        THEN [b EXCEPT !.fileComplexity = @ + 1,
                       !.topLevelOwnComplexity = Append(@, complexityPoint)]
      ELSE IF Len(fns) = 1
        THEN [b EXCEPT !.topLevelOwnComplexity = Append(@, complexityPoint)]
      ELSE [b EXCEPT !.heap[b.complexityIfNested] = Append(@, complexityPoint),
                     !.heap[b.complexityIfNotNested] = Append(@, complexityPoint)]

addComplexity(a, location, fns) ==
  LET seq == Len(a.log) + 1
      complexityPoint == ComplexityPoint(1, location, seq)
      b == Logged(a, 1, location, FALSE, fns)
  IN  IF Len(fns) = 0
        THEN [b EXCEPT !.fileComplexity = @ + 1]
      ELSE IF Len(fns) = 1
        THEN [b EXCEPT !.topLevelOwnComplexity = Append(@, complexityPoint)]
      ELSE [b EXCEPT !.heap[b.complexityIfNested] = Append(@, complexityPoint),
                     !.heap[b.complexityIfNotNested] = Append(@, complexityPoint)]

\* Write an accumulator value back to the variables.
SetAcc(a) ==
  /\ fileComplexity' = a.fileComplexity
  /\ topLevelHasStructuralComplexity' = a.topLevelHasStructuralComplexity
  /\ topLevelOwnComplexity' = a.topLevelOwnComplexity
  /\ heap' = a.heap
  /\ log' = a.log
  /\ UNCHANGED <<complexityIfNested, complexityIfNotNested>>

(***************************************************************************)
(* checkFunction                                                           *)
(*                                                                         *)
(* `e` holds what checkFunction writes: fileComplexity, the issues         *)
(* reported and the history of calls.                                      *)
(***************************************************************************)
\* Exceeds with the comparison that also takes the threshold itself
ExceedsOrEquals(complexityAmount, th) == complexityAmount >= th

\* complexityAmount > threshold
Exceeds(complexityAmount, th) == complexityAmount > th

\* checkFunction with the file total kept only for the functions reported
checkFunctionReportedOnly(e, complexity, loc, metric, th) ==
  LET complexityAmount == SumComplexity(complexity)
      f == [e EXCEPT !.evals = Append(@, [loc |-> loc, complexity |-> complexity,
                                          complexityAmount |-> complexityAmount])]
  IN  IF metric THEN [f EXCEPT !.fileComplexity = @ + complexityAmount]
      ELSE IF Exceeds(complexityAmount, th)
        THEN [f EXCEPT !.fileComplexity = @ + complexityAmount,
                       !.issues =
                Append(@, [loc |-> loc,
                           complexityAmount |-> complexityAmount,
                           secondaryLocations |-> complexity,
                           cost |-> complexityAmount - th])]
      ELSE f

checkFunction(e, complexity, loc, metric, th) ==
  LET complexityAmount == SumComplexity(complexity)
      f == [e EXCEPT !.fileComplexity = @ + complexityAmount,
                     !.evals = Append(@, [loc |-> loc, complexity |-> complexity,
                                          complexityAmount |-> complexityAmount])]
  IN  IF metric THEN f
      ELSE IF Exceeds(complexityAmount, th)
        THEN [f EXCEPT !.issues =
                Append(@, [loc |-> loc,
                           complexityAmount |-> complexityAmount,
                           secondaryLocations |-> complexity,
                           cost |-> complexityAmount - th])]
      ELSE f

RECURSIVE ConcatStandalone(_, _, _)
\* ConcatNested with the wrong one of the two lists of a second level function
ConcatStandalone(totalComplexity, fs, h) ==
  IF fs = <<>> THEN totalComplexity
  ELSE ConcatStandalone(totalComplexity \o h[Head(fs).complexityIfThisSecondaryIsTopLevel],
                        Tail(fs), h)

RECURSIVE ConcatNestedFirst(_, _, _)
\* ConcatNested with the list of each second level function put in front
ConcatNestedFirst(totalComplexity, fs, h) ==
  IF fs = <<>> THEN totalComplexity
  ELSE ConcatNestedFirst(h[Head(fs).complexityIfNested] \o totalComplexity, Tail(fs), h)

RECURSIVE ConcatNested(_, _, _)
\* secondLevelFunctions.forEach(f => totalComplexity = totalComplexity.concat(f.complexityIfNested))
ConcatNested(totalComplexity, fs, h) ==
  IF fs = <<>> THEN totalComplexity
  ELSE ConcatNested(totalComplexity \o h[Head(fs).complexityIfNested], Tail(fs), h)

RECURSIVE CheckSecondLevelNested(_, _, _, _, _)
\* CheckSecondLevel with the wrong one of the two lists of a second level function
CheckSecondLevelNested(e, fs, h, metric, th) ==
  IF fs = <<>> THEN e
  ELSE CheckSecondLevelNested(
         checkFunction(e, h[Head(fs).complexityIfNested],
                       Loc(Head(fs).node, "function"), metric, th),
         Tail(fs), h, metric, th)

RECURSIVE CheckSecondLevel(_, _, _, _, _)
\* secondLevelFunctions.forEach(f => checkFunction(f.complexityIfThisSecondaryIsTopLevel, loc of f.node))
CheckSecondLevel(e, fs, h, metric, th) ==
  IF fs = <<>> THEN e
  ELSE CheckSecondLevel(
         checkFunction(e, h[Head(fs).complexityIfThisSecondaryIsTopLevel],
                       Loc(Head(fs).node, "function"), metric, th),
         Tail(fs), h, metric, th)

\* LeaveTopLevel with the second level functions checked before the top
\* level function
LeaveTopLevelChildrenFirst(e, node, hasStructural, own, fs, h, metric, th) ==
  IF hasStructural
    THEN checkFunction(e, ConcatNested(own, fs, h), Loc(node, "function"), metric, th)
    ELSE checkFunction(CheckSecondLevel(e, fs, h, metric, th),
                       own, Loc(node, "function"), metric, th)

\* onLeaveFunction, the branch of a top level function
LeaveTopLevel(e, node, hasStructural, own, fs, h, metric, th) ==
  IF hasStructural
    THEN checkFunction(e, ConcatNested(own, fs, h), Loc(node, "function"), metric, th)
    ELSE CheckSecondLevel(checkFunction(e, own, Loc(node, "function"), metric, th),
                          fs, h, metric, th)

\* onLeaveFunction, the branch of a second level function
SecondLevelFunction(node, ifNested, ifNotNested) ==
  [node |-> node,
   complexityIfNested |-> ifNested,
   complexityIfThisSecondaryIsTopLevel |-> ifNotNested,
   loc |-> Loc(node, "function")]

(***************************************************************************)
(* Logical expressions                                                     *)
(*                                                                         *)
(* A tree of logical nodes is <<operator, left, right>>; <<>> stands for   *)
(* an operand that is not a LogicalExpression.  The logical nodes of a     *)
(* tree whose root has identity id are numbered in pre-order from id.      *)
(***************************************************************************)
Operators == {"&&", "||"}

RECURSIVE Size(_)
Size(t) == IF t = <<>> THEN 0 ELSE 1 + Size(t[2]) + Size(t[3])

RECURSIVE Trees(_)
\* the trees of exactly n logical nodes
Trees(n) ==
  IF n = 0 THEN {<<>>}
  ELSE UNION { { <<op, l, r>> : op \in Operators, l \in Trees(k), r \in Trees(n - 1 - k) }
               : k \in 0..(n - 1) }

\* the identities of node.left and node.right, when they are logical nodes:
\* the logical nodes below a node are numbered from `base`, the left ones first
LeftId(t, base) == base
RightId(t, base) == base + Size(t[2])

RECURSIVE flattenPreOrder(_, _, _)
\* flattenLogicalExpression with the node before its left operand
flattenPreOrder(t, id, base) ==
  IF t = <<>> THEN <<>>
  ELSE <<[node |-> id, operator |-> t[1]]>>
       \o flattenPreOrder(t[2], LeftId(t, base), LeftId(t, base) + 1)
       \o flattenPreOrder(t[3], RightId(t, base), RightId(t, base) + 1)

RECURSIVE flattenLogicalExpression(_, _, _)
\* [...flattenLogicalExpression(node.left), node, ...flattenLogicalExpression(node.right)]
flattenLogicalExpression(t, id, base) ==
  IF t = <<>> THEN <<>>
  ELSE flattenLogicalExpression(t[2], LeftId(t, base), LeftId(t, base) + 1)
       \o <<[node |-> id, operator |-> t[1]]>>
       \o flattenLogicalExpression(t[3], RightId(t, base), RightId(t, base) + 1)

\* what flattenLogicalExpression adds to consideredLogicalExpressions
FlattenedNodes(t, id, base) ==
  { flattenLogicalExpression(t, id, base)[k].node : k \in 1..Size(t) }

\* !previous || previous.operator !== current.operator
OperatorChanges(flattened, k) ==
  k = 1 \/ flattened[k - 1].operator # flattened[k].operator

RECURSIVE LogicalLoop(_, _, _, _, _)
\* for (const current of flattenedLogicalExpressions) { ... previous = current }
LogicalLoop(a, flattened, k, root, fns) ==
  IF k > Len(flattened) THEN a
  ELSE LogicalLoop(
         IF OperatorChanges(flattened, k)
           \* getFirstTokenAfter(logicalExpression.left): of the node the handler got
           THEN addComplexity(a, Loc(root, "operator"), fns)
           ELSE a,
         flattened, k + 1, root, fns)

visitLogicalExpression(a, considered, t, id, base, fns) ==
  IF id \notin considered
    THEN LogicalLoop(a, flattenLogicalExpression(t, id, base), 1, id, fns)
    ELSE a

(***************************************************************************)
(* The walk                                                                *)
(*                                                                         *)
(* An open node is a frame: its identity, its kind, the children the walk  *)
(* still owes it (`fixed`, in source order) and the sort of children it    *)
(* takes in any number (`free`, "none" when it takes none).  A child that  *)
(* a handler names is a slot: its sort says which kinds of node may stand  *)
(* there; a slot that must hold a node with an effect (one added to        *)
(* nestingNodes, or a logical node of a flattened chain) has its identity  *)
(* from the start, the others (`opt`) may be a plain identifier, which     *)
(* changes nothing and is not walked.                                      *)
(***************************************************************************)
Slot(id, sort, tree) == [id |-> id, sort |-> sort, tree |-> tree, opt |-> id = NoId]

\* of the kind of a node the walk needs only whether it is the Program or a function
Class(kind) == IF kind \in {"Program", "Function"} THEN kind ELSE "Node"

\* chainDepth: the nesting after the entry of the node or, of an `else if`,
\* after the entry of the first `if` of its chain
Frame(id, kind, fixed, free, marked, chainDepth) ==
  [id |-> id, kind |-> Class(kind), fixed |-> fixed, free |-> free, n |-> 0,
   marked |-> marked, chainDepth |-> chainDepth]

ExpressionKinds == {"Function", "LogicalExpression", "ConditionalExpression"}
StatementKinds == {"IfStatement", "Loop", "SwitchStatement", "Jump"}

\* The kinds of node that may stand in a slot of a sort.  "Other" (a block,
\* a call, ...) stands only where a handler marks the node: elsewhere it
\* changes nothing, and its children are walked as children of its parent.
\* The files walked have functions and `if` statements at file scope
\* ("top"); every construct may stand in them.
Allowed(sort) ==
  CASE sort = "top"       -> {"Function", "IfStatement"}
    [] sort = "any"       -> ExpressionKinds \cup StatementKinds \cup {"CatchClause"}
    [] sort = "exprs"     -> ExpressionKinds
    [] sort = "test"      -> ExpressionKinds
    [] sort = "branch"    -> ExpressionKinds \cup {"Other"}
    [] sort = "operand"   -> ExpressionKinds \ {"LogicalExpression"}
    [] sort = "logical"   -> {"LogicalExpression"}
    [] sort = "stmt"      -> StatementKinds \cup {"Other"}
    [] sort = "else"      -> (StatementKinds \ {"IfStatement"}) \cup {"Other"}
    [] sort = "elseif"    -> {"IfStatement"}
    [] sort = "block"     -> {"Other"}
    [] sort = "case"      -> {"SwitchCase"}
    [] OTHER              -> {}

ExpressionSorts == {"exprs", "test", "branch", "operand", "logical"}

Top == stack[Len(stack)]

\* the children the walk may enter next: an index of Top.fixed with only
\* optional slots before it, or 0 for one more free child
Avail ==
  IF pc # "walk" THEN {}
  ELSE { i \in 1..Len(Top.fixed) : \A j \in 1..(i - 1) : Top.fixed[j].opt }
       \cup (IF Top.free # "none" /\ Top.fixed = <<>> /\ Top.n < MaxChildren
               THEN {0} ELSE {})

SlotAt(i) == IF i = 0 THEN Slot(NoId, Top.free, <<>>) ELSE Top.fixed[i]

NodeId(s) == IF s.id = NoId THEN nextId ELSE s.id

\* identities used up by entering a node in slot s that names `more` children
Used(s, more) == (IF s.id = NoId THEN 1 ELSE 0) + more

Room(s, more) == nextId + Used(s, more) <= size + 2

\* the "*" listener
Star(node) == IF node \in nestingNodes THEN nesting + 1 ELSE nesting

Push(i, frame) ==
  stack' = Append([stack EXCEPT ![Len(stack)].fixed =
                      IF i = 0 THEN @ ELSE SubSeq(@, i + 1, Len(@)),
                                 ![Len(stack)].n = IF i = 0 THEN @ + 1 ELSE @],
                  frame)

\* the next node of the tree: any in the first walk, the one the first walk
\* found there in the second
Chosen(c) ==
  /\ IF run = 0 THEN UNCHANGED script
     ELSE IF run = 1 THEN script' = Append(script, c)
     ELSE /\ script # <<>>
          /\ c = Head(script)
          /\ script' = Tail(script)
  /\ UNCHANGED <<run, first>>

Choice(op, i, kind, fixed, t) ==
  [op |-> op, i |-> i, kind |-> kind, fixed |-> fixed, tree |-> t]

Step(op, node, kind, sort, t) ==
  [op |-> op, node |-> node,
   kind |-> IF kind \in {"LogicalExpression", "IfStatement"} THEN kind ELSE Class(kind),
   sort |-> sort, tree |-> t,
   logBefore |-> Len(log), evalsBefore |-> Len(evals), issuesBefore |-> Len(issues),
   nestingBefore |-> nesting, fileBefore |-> fileComplexity,
   fnsBefore |-> enclosingFunctions]

CanEnter(i, kind, more) ==
  /\ i \in Avail
  /\ kind \in Allowed(SlotAt(i).sort)
  /\ Room(SlotAt(i), more)

Entered(i, kind, more, fixed, free, t) ==
  /\ Push(i, Frame(NodeId(SlotAt(i)), kind, fixed, free,
                   NodeId(SlotAt(i)) \in nestingNodes,
                   IF SlotAt(i).sort = "elseif" THEN Top.chainDepth ELSE nesting'))
  /\ nextId' = nextId + Used(SlotAt(i), more)
  /\ last' = Step("enter", NodeId(SlotAt(i)), kind, SlotAt(i).sort, t)
  /\ functions' = IF kind = "Function"
                    THEN Append(functions, [node |-> NodeId(SlotAt(i)),
                                            depth |-> Len(enclosingFunctions),
                                            nesting |-> nesting'])
                    ELSE functions
  /\ Chosen(Choice("enter", i, kind, fixed, t))
  /\ UNCHANGED <<pc, size, threshold, isFileComplexity>>

(***************************************************************************)
(* create(): the state before the walk                                     *)
(***************************************************************************)
\* context.options[0] !== undefined ? context.options[0] : DEFAULT_THRESHOLD
getThreshold(options) ==
  IF Len(options.threshold) > 0 THEN options.threshold[1] ELSE DEFAULT_THRESHOLD

\* context.options.includes("metric")
IsFileComplexity(options) == options.internal = "metric"


\* what the rule has handed to ESLint: the Findings, and the file total in
\* the metric mode
Handed == [issues |-> issues, metricReport |-> metricReport,
           fileComplexity |-> fileComplexity]

\* create(context), before walk r of a tree of n nodes
create(n, r) ==
  /\ \E options \in Options :
       /\ threshold = getThreshold(options)
       /\ isFileComplexity = IsFileComplexity(options)
  /\ fileComplexity = 0
  /\ heap = << <<>>, <<>> >>
  /\ complexityIfNotNested = 1
  /\ complexityIfNested = 2
  /\ nesting = 0
  /\ topLevelHasStructuralComplexity = FALSE
  /\ topLevelOwnComplexity = <<>>
  /\ nestingNodes = {}
  /\ consideredLogicalExpressions = {}
  /\ enclosingFunctions = <<>>
  /\ secondLevelFunctions = <<>>
  /\ issues = <<>>
  /\ metricReport = <<>>
  /\ pc = "start"
  /\ stack = <<>>
  /\ nextId = ProgramId + 1
  /\ size = n
  /\ run = r
  /\ script = <<>>
  /\ first = Handed
  /\ log = <<>>
  /\ evals = <<>>
  /\ functions = <<>>
  /\ last = [op |-> "create", node |-> NoId, kind |-> "none", sort |-> "none",
             tree |-> <<>>, logBefore |-> 0, evalsBefore |-> 0, issuesBefore |-> 0,
             nestingBefore |-> 0, fileBefore |-> 0, fnsBefore |-> <<>>]

Init == create(MaxNodes, 0)

(***************************************************************************)
(* Entering a node                                                         *)
(***************************************************************************)
\* Program(): the root; "*" finds nothing in nestingNodes
Program ==
  /\ pc = "start"
  /\ pc' = "walk"
  /\ fileComplexity' = 0
  /\ stack' = <<Frame(ProgramId, "Program", <<>>, "top", FALSE, nesting)>>
  /\ last' = Step("enter", ProgramId, "Program", "none", <<>>)
  /\ UNCHANGED <<threshold, isFileComplexity, complexityIfNotNested, complexityIfNested,
                 heap, nesting, topLevelHasStructuralComplexity, topLevelOwnComplexity,
                 nestingNodes, consideredLogicalExpressions, enclosingFunctions,
                 secondLevelFunctions, issues, metricReport, nextId, size, log, evals,
                 functions, run, script, first>>

\* NewLists with the two arrays emptied in place
ClearedLists(h, ifNotNested, ifNested) ==
  [heap |-> [h EXCEPT ![ifNotNested] = <<>>, ![ifNested] = <<>>],
   complexityIfNotNested |-> ifNotNested,
   complexityIfNested |-> ifNested]

\* complexityIfNotNested = []; complexityIfNested = []: two new arrays; the
\* arrays the variables referred to before stay as they are
NewLists(h, ifNotNested, ifNested) ==
  [heap |-> h \o << <<>>, <<>> >>,
   complexityIfNotNested |-> Len(h) + 1,
   complexityIfNested |-> Len(h) + 2]

\* "*" then ":function" (onEnterFunction) on a FunctionDeclaration,
\* FunctionExpression or ArrowFunctionExpression
Function(i) ==
  LET node == NodeId(SlotAt(i))
      n1 == Star(node)
  IN  /\ CanEnter(i, "Function", 0)
      /\ IF Len(enclosingFunctions) = 0
           THEN /\ topLevelHasStructuralComplexity' = FALSE
                /\ topLevelOwnComplexity' = <<>>
                /\ secondLevelFunctions' = <<>>
                /\ nesting' = n1
                /\ UNCHANGED <<complexityIfNotNested, complexityIfNested, heap, nestingNodes>>
         ELSE IF Len(enclosingFunctions) = 1
           THEN /\ complexityIfNotNested' =
                     NewLists(heap, complexityIfNotNested, complexityIfNested).complexityIfNotNested
                /\ complexityIfNested' =
                     NewLists(heap, complexityIfNotNested, complexityIfNested).complexityIfNested
                /\ heap' = NewLists(heap, complexityIfNotNested, complexityIfNested).heap
                /\ nesting' = n1
                /\ UNCHANGED <<topLevelHasStructuralComplexity, topLevelOwnComplexity,
                               secondLevelFunctions, nestingNodes>>
         ELSE /\ nesting' = n1 + 1
              /\ nestingNodes' = nestingNodes \cup {node}
              /\ UNCHANGED <<topLevelHasStructuralComplexity, topLevelOwnComplexity,
                             secondLevelFunctions, complexityIfNotNested,
                             complexityIfNested, heap>>
      /\ enclosingFunctions' = Append(enclosingFunctions, node)
      /\ Entered(i, "Function", 0, <<>>, "any", <<>>)
      /\ UNCHANGED <<fileComplexity, consideredLogicalExpressions, issues,
                     metricReport, log, evals>>

\* what every handler of a scoring construct does around its own work:
\* "*" first, then the points `a` and the marks of the handler
Visited(i, kind, more, fixed, a, marks, t) ==
  /\ CanEnter(i, kind, more)
  /\ nesting' = Star(NodeId(SlotAt(i)))
  /\ SetAcc(a)
  /\ nestingNodes' = nestingNodes \cup marks
  /\ Entered(i, kind, more, fixed, "none", t)
  /\ UNCHANGED <<enclosingFunctions, secondLevelFunctions, issues, metricReport, evals>>

\* the first identity free for the children of the node entered in slot s
Base(s) == nextId + (IF s.id = NoId THEN 1 ELSE 0)

\* isIfStatement(parent) && parent.alternate === ifStatement
IsElseIf(s) == s.sort = "elseif"

\* visitIfStatement; alt: no alternate, an alternate that is no `if`, an `else if`
IfStatement(i, alt) ==
  LET s == SlotAt(i)
      node == NodeId(s)
      consequent == Base(s)
      alternate == Base(s) + 1
      a1 == IF IsElseIf(s)
              THEN addComplexity(Acc, Loc(node, "if"), enclosingFunctions)
              ELSE addStructuralComplexity(Acc, Loc(node, "if"), Star(node),
                                           enclosingFunctions)
      a2 == IF alt = "else"
              THEN addComplexity(a1, Loc(node, "else"), enclosingFunctions)
              ELSE a1
  IN  /\ Visited(i, "IfStatement", IF alt = "none" THEN 1 ELSE 2,
                 <<Slot(NoId, "test", <<>>), Slot(consequent, "stmt", <<>>)>>
                   \o (IF alt = "none" THEN <<>> ELSE <<Slot(alternate, alt, <<>>)>>),
                 a2,
                 {consequent} \cup (IF alt = "else" THEN {alternate} ELSE {}),
                 <<>>)
      /\ UNCHANGED consideredLogicalExpressions

\* visitLoop: ForStatement, ForInStatement, ForOfStatement, DoWhileStatement,
\* WhileStatement; the loops walked have a block for a body
Loop(i) ==
  LET s == SlotAt(i)
      node == NodeId(s)
      body == Base(s)
  IN  /\ Visited(i, "Loop", 1,
                 <<Slot(NoId, "test", <<>>), Slot(body, "block", <<>>)>>,
                 addStructuralComplexity(Acc, Loc(node, "first"), Star(node),
                                         enclosingFunctions),
                 {body}, <<>>)
      /\ UNCHANGED consideredLogicalExpressions

\* visitSwitchStatement, of a switch with n case clauses
SwitchStatement(i, n) ==
  LET s == SlotAt(i)
      node == NodeId(s)
      cases == [k \in 1..n |-> Slot(Base(s) + k - 1, "case", <<>>)]
  IN  /\ Visited(i, "SwitchStatement", n, cases,
                 addStructuralComplexity(Acc, Loc(node, "first"), Star(node),
                                         enclosingFunctions),
                 { cases[k].id : k \in 1..n }, <<>>)
      /\ UNCHANGED consideredLogicalExpressions

\* a case clause: no handler of its own
SwitchCase(i) ==
  /\ CanEnter(i, "SwitchCase", 0)
  /\ nesting' = Star(NodeId(SlotAt(i)))
  /\ Entered(i, "SwitchCase", 0, <<>>, "any", <<>>)
  /\ UNCHANGED <<fileComplexity, complexityIfNotNested, complexityIfNested, heap,
                 topLevelHasStructuralComplexity, topLevelOwnComplexity, nestingNodes,
                 consideredLogicalExpressions, enclosingFunctions,
                 secondLevelFunctions, issues, metricReport, log, evals>>

\* visitContinueOrBreakStatement: ContinueStatement, BreakStatement
Jump(i, label) ==
  LET node == NodeId(SlotAt(i))
  IN  /\ Visited(i, "Jump", 0, <<>>,
                 IF label THEN addComplexity(Acc, Loc(node, "first"), enclosingFunctions)
                          ELSE Acc,
                 {}, IF label THEN <<"label">> ELSE <<>>)
      /\ UNCHANGED consideredLogicalExpressions

\* visitCatchClause
CatchClause(i) ==
  LET s == SlotAt(i)
      node == NodeId(s)
      body == Base(s)
  IN  /\ Visited(i, "CatchClause", 1, <<Slot(body, "block", <<>>)>>,
                 addStructuralComplexity(Acc, Loc(node, "first"), Star(node),
                                         enclosingFunctions),
                 {body}, <<>>)
      /\ UNCHANGED consideredLogicalExpressions

\* visitConditionalExpression
ConditionalExpression(i) ==
  LET s == SlotAt(i)
      node == NodeId(s)
      consequent == Base(s)
      alternate == Base(s) + 1
  IN  /\ Visited(i, "ConditionalExpression", 2,
                 <<Slot(NoId, "test", <<>>), Slot(consequent, "branch", <<>>),
                   Slot(alternate, "branch", <<>>)>>,
                 addStructuralComplexity(Acc, Loc(node, "?"), Star(node),
                                         enclosingFunctions),
                 {consequent, alternate}, <<>>)
      /\ UNCHANGED consideredLogicalExpressions

ChainTrees == UNION { Trees(n) : n \in 1..MaxChain }

\* the operand slots of a logical node
Operand(t, id) == IF t = <<>> THEN Slot(NoId, "operand", <<>>) ELSE Slot(id, "logical", t)

\* visitLogicalExpression.  A logical node that is an operand of a logical
\* node has its tree from the root of the chain; any other is the root of a
\* chain t.
LogicalExpression(i) ==
  LET s == SlotAt(i)
      node == NodeId(s)
      base == IF s.sort = "logical" THEN node + 1 ELSE Base(s)
  IN  /\ CanEnter(i, "LogicalExpression", 0)
      /\ \E t \in (IF s.sort = "logical" THEN {s.tree} ELSE ChainTrees) :
           /\ Visited(i, "LogicalExpression",
                      IF s.sort = "logical" THEN 0 ELSE Size(t) - 1,
                      <<Operand(t[2], LeftId(t, base)), Operand(t[3], RightId(t, base))>>,
                      visitLogicalExpression(Acc, consideredLogicalExpressions, t, node,
                                             base, enclosingFunctions),
                      {}, t)
           /\ consideredLogicalExpressions' =
                IF node \notin consideredLogicalExpressions
                  THEN consideredLogicalExpressions \cup FlattenedNodes(t, node, base)
                  ELSE consideredLogicalExpressions

\* any node no handler is written for (a block, a call, an expression
\* statement, a try statement ...): only "*"
Other(i) ==
  /\ CanEnter(i, "Other", 0)
  /\ nesting' = Star(NodeId(SlotAt(i)))
  /\ Entered(i, "Other", 0, <<>>,
             IF SlotAt(i).sort \in ExpressionSorts THEN "exprs" ELSE "any", <<>>)
  /\ UNCHANGED <<fileComplexity, complexityIfNotNested, complexityIfNested, heap,
                 topLevelHasStructuralComplexity, topLevelOwnComplexity, nestingNodes,
                 consideredLogicalExpressions, enclosingFunctions,
                 secondLevelFunctions, issues, metricReport, log, evals>>

(***************************************************************************)
(* Leaving a node                                                          *)
(***************************************************************************)
\* the walk has entered every child the innermost open node must have
Complete == pc = "walk" /\ \A j \in 1..Len(Top.fixed) : Top.fixed[j].opt

\* the "*:exit" listener
StarExit(node) ==
  IF node \in nestingNodes
    THEN /\ nesting' = nesting - 1
         /\ nestingNodes' = nestingNodes \ {node}
    ELSE UNCHANGED <<nesting, nestingNodes>>

Left(kind) ==
  /\ stack' = Front(stack)
  /\ last' = Step("exit", Top.id, kind, "none", <<>>)
  /\ Chosen(Choice("exit", 0, kind, <<>>, <<>>))
  /\ UNCHANGED <<threshold, isFileComplexity, nextId, size,
                 consideredLogicalExpressions, functions>>

\* "*:exit" on a node that is no function and not the Program
ExitNode ==
  /\ Complete
  /\ Top.kind \notin {"Program", "Function"}
  /\ StarExit(Top.id)
  /\ Left("Node")
  /\ UNCHANGED <<pc, fileComplexity, complexityIfNotNested, complexityIfNested, heap,
                 topLevelHasStructuralComplexity, topLevelOwnComplexity,
                 enclosingFunctions, secondLevelFunctions, issues, metricReport,
                 log, evals>>

\* what checkFunction writes
Checked == [fileComplexity |-> fileComplexity, issues |-> issues, evals |-> evals]

\* "*:exit" then ":function:exit" (onLeaveFunction)
ExitFunction ==
  LET node == Top.id
      popped == Front(enclosingFunctions)
      e == LeaveTopLevel(Checked, node, topLevelHasStructuralComplexity,
                         topLevelOwnComplexity, secondLevelFunctions, heap,
                         isFileComplexity, threshold)
  IN  /\ Complete
      /\ Top.kind = "Function"
      /\ StarExit(node)
      /\ enclosingFunctions' = popped
      /\ IF Len(popped) = 0
           THEN /\ fileComplexity' = e.fileComplexity
                /\ issues' = e.issues
                /\ evals' = e.evals
                /\ UNCHANGED secondLevelFunctions
         ELSE IF Len(popped) = 1
           THEN /\ secondLevelFunctions' =
                     Append(secondLevelFunctions,
                            SecondLevelFunction(node, complexityIfNested,
                                                complexityIfNotNested))
                /\ UNCHANGED <<fileComplexity, issues, evals>>
         ELSE UNCHANGED <<fileComplexity, issues, evals, secondLevelFunctions>>
      /\ Left("Function")
      /\ UNCHANGED <<pc, complexityIfNotNested, complexityIfNested, heap,
                     topLevelHasStructuralComplexity, topLevelOwnComplexity,
                     metricReport, log>>

\* "*:exit" then "Program:exit"
ExitProgram ==
  /\ Complete
  /\ Top.kind = "Program"
  /\ StarExit(Top.id)
  /\ metricReport' = IF isFileComplexity
                       THEN Append(metricReport,
                                   [node |-> Top.id, message |-> fileComplexity])
                       ELSE metricReport
  /\ pc' = "done"
  /\ Left("Program")
  /\ UNCHANGED <<fileComplexity, complexityIfNotNested, complexityIfNested, heap,
                 topLevelHasStructuralComplexity, topLevelOwnComplexity,
                 enclosingFunctions, secondLevelFunctions, issues, log, evals>>

(***************************************************************************)
(* The specification                                                       *)
(***************************************************************************)
\* 0 for a free child, or an index into the slots of the innermost open node
SlotChoices == 0..(MaxCases + 3)

Next ==
  \/ Program
  \/ \E i \in SlotChoices : Function(i)
  \/ \E i \in SlotChoices, alt \in {"none", "else", "elseif"} : IfStatement(i, alt)
  \/ \E i \in SlotChoices : Loop(i)
  \/ \E i \in SlotChoices, n \in 0..MaxCases : SwitchStatement(i, n)
  \/ \E i \in SlotChoices : SwitchCase(i)
  \/ \E i \in SlotChoices, label \in BOOLEAN : Jump(i, label)
  \/ \E i \in SlotChoices : CatchClause(i)
  \/ \E i \in SlotChoices : ConditionalExpression(i)
  \/ \E i \in SlotChoices : LogicalExpression(i)
  \/ \E i \in SlotChoices : Other(i)
  \/ ExitNode
  \/ ExitFunction
  \/ ExitProgram

Spec == Init /\ [][Next]_vars

(***************************************************************************)
(* The same rule on larger trees of fewer kinds of node: functions, `if`   *)
(* statements, conditional expressions, switch statements without cases    *)
(* and nodes without a handler.                                            *)
(***************************************************************************)
DeepInit == create(MaxDeepNodes, 0)

DeepNext ==
  \/ Program
  \/ \E i \in SlotChoices : Function(i)
  \/ \E i \in SlotChoices, alt \in {"none", "else", "elseif"} : IfStatement(i, alt)
  \/ \E i \in SlotChoices : SwitchStatement(i, 0)
  \/ \E i \in SlotChoices : ConditionalExpression(i)
  \/ \E i \in SlotChoices : Other(i)
  \/ ExitNode
  \/ ExitFunction
  \/ ExitProgram

DeepSpec == DeepInit /\ [][DeepNext]_vars

(***************************************************************************)
(* Two walks of one tree.  ESLint calls create() for every walk, so the    *)
(* second walk starts from the values create() gives the closure; the tree *)
(* is the one the first walk found (`script`).                             *)
(***************************************************************************)
\* Fresh with the set of considered logical expressions kept from the walk
\* before
FreshButConsidered ==
  [fileComplexity |-> 0, nesting |-> 0,
   topLevelHasStructuralComplexity |-> FALSE, topLevelOwnComplexity |-> <<>>,
   nestingNodes |-> {}, consideredLogicalExpressions |-> consideredLogicalExpressions,
   enclosingFunctions |-> <<>>, secondLevelFunctions |-> <<>>]

\* the initialisers of create()
Fresh ==
  [fileComplexity |-> 0, nesting |-> 0,
   topLevelHasStructuralComplexity |-> FALSE, topLevelOwnComplexity |-> <<>>,
   nestingNodes |-> {}, consideredLogicalExpressions |-> {},
   enclosingFunctions |-> <<>>, secondLevelFunctions |-> <<>>]

\* the first walk is over: create() again, for the same tree and options
Again ==
  /\ pc = "done"
  /\ run = 1
  /\ run' = 2
  /\ first' = Handed
  /\ fileComplexity' = Fresh.fileComplexity
  /\ heap' = << <<>>, <<>> >>
  /\ complexityIfNotNested' = 1
  /\ complexityIfNested' = 2
  /\ nesting' = Fresh.nesting
  /\ topLevelHasStructuralComplexity' = Fresh.topLevelHasStructuralComplexity
  /\ topLevelOwnComplexity' = Fresh.topLevelOwnComplexity
  /\ nestingNodes' = Fresh.nestingNodes
  /\ consideredLogicalExpressions' = Fresh.consideredLogicalExpressions
  /\ enclosingFunctions' = Fresh.enclosingFunctions
  /\ secondLevelFunctions' = Fresh.secondLevelFunctions
  /\ issues' = <<>>
  /\ metricReport' = <<>>
  /\ pc' = "start"
  /\ stack' = <<>>
  /\ nextId' = ProgramId + 1
  /\ log' = <<>>
  /\ evals' = <<>>
  /\ functions' = <<>>
  /\ last' = [op |-> "create", node |-> NoId, kind |-> "none", sort |-> "none",
              tree |-> <<>>, logBefore |-> 0, evalsBefore |-> 0, issuesBefore |-> 0,
              nestingBefore |-> 0, fileBefore |-> 0, fnsBefore |-> <<>>]
  /\ UNCHANGED <<threshold, isFileComplexity, size, script>>

TwiceInit == create(MaxTwiceNodes, 1)

TwiceNext == Next \/ Again

TwiceSpec == TwiceInit /\ [][TwiceNext]_vars

(***************************************************************************)
(* Claims                                                                  *)
(***************************************************************************)
\* a function entered while two or more functions were open
Deep(f) == \E k \in 3..Len(enclosingFunctions) : enclosingFunctions[k] = f.id

\* open nodes that increase nesting: marked in nestingNodes by the handler
\* of their parent ...
OpenMarked == { k \in 1..Len(stack) : stack[k].marked }

\* ... or a function entered at function depth >= 2
OpenDeep == { k \in 1..Len(stack) : Deep(stack[k]) }

\* C1: at every step of the walk nesting is >= 0 and is the number of open
\* nodes that are nesting-increasing (marked by a parent handler, plus
\* functions entered at function depth >= 2), whatever the shape of the
\* nodes, so that it is back to its former value after a node is left.
\* A function that is both marked and deep is counted for both here, which
\* is what the code adds on its entry; the formula fails when it is left.
C1_NestingCountsOpenNodes ==
  /\ nesting >= 0
  /\ nesting = Cardinality(OpenMarked) + Cardinality(OpenDeep)

\* the step just taken left a function that no function encloses
LeftTopLevel ==
  last.op = "exit" /\ last.kind = "Function" /\ Len(last.fnsBefore) = 1

\* the checkFunction calls of the step just taken
NewEvals == SubSeq(evals, last.evalsBefore + 1, Len(evals))

\* the depth of a function
DepthOf(node) == (CHOOSE f \in { functions[k] : k \in 1..Len(functions) } : f.node = node).depth

\* where the top level function entered last stands in `functions`
TopIndex == CHOOSE k \in 1..Len(functions) :
              /\ functions[k].depth = 0
              /\ \A m \in (k + 1)..Len(functions) : functions[m].depth # 0

IsSecondLevel(f) == f.depth = 1

\* its depth-1 children: the functions entered at depth 1 after it, in order
Children == SelectSeq(SubSeq(functions, TopIndex + 1, Len(functions)), IsSecondLevel)

\* secondLevelFunctions holds each of them once, in the order of the source
ChildRecordsInOrder(top) ==
  /\ functions[TopIndex].node = top
  /\ Len(secondLevelFunctions) = Len(Children)
  /\ \A j \in 1..Len(Children) : secondLevelFunctions[j].node = Children[j].node

NestedOf(j) == heap[secondLevelFunctions[j].complexityIfNested]
StandaloneOf(j) == heap[secondLevelFunctions[j].complexityIfThisSecondaryIsTopLevel]

RECURSIVE FoldOffset(_)
\* where the points of child j start in the folded list, less one
FoldOffset(j) ==
  IF j = 1 THEN Len(topLevelOwnComplexity)
  ELSE FoldOffset(j - 1) + Len(NestedOf(j - 1))

\* L is the own points followed by the nested-fold list of every child
IsFold(L) ==
  /\ Len(L) = FoldOffset(Len(secondLevelFunctions) + 1)
  /\ \A p \in 1..Len(topLevelOwnComplexity) : L[p] = topLevelOwnComplexity[p]
  /\ \A j \in 1..Len(secondLevelFunctions) :
       \A p \in 1..Len(NestedOf(j)) : L[FoldOffset(j) + p] = NestedOf(j)[p]

\* C2: when a depth-0 function is left with its flag true, one evaluation is
\* made, at the location of that function, of its own points followed by
\* the nested-fold list of each depth-1 child in order of appearance, and
\* none is made for a child.
C2_FoldedEvaluation ==
  (LeftTopLevel /\ topLevelHasStructuralComplexity) =>
    /\ ChildRecordsInOrder(last.node)
    /\ Len(NewEvals) = 1
    /\ NewEvals[1].loc = Loc(last.node, "function")
    /\ IsFold(NewEvals[1].complexity)
    /\ \A j \in 1..Len(secondLevelFunctions) :
         \A k \in 1..Len(NewEvals) : NewEvals[k].loc.node # secondLevelFunctions[j].node

C2_Witness ==
  /\ LeftTopLevel /\ topLevelHasStructuralComplexity
  /\ Len(topLevelOwnComplexity) > 0
  /\ \E j \in 1..Len(secondLevelFunctions) :
       /\ Len(NestedOf(j)) > 0
       /\ SumComplexity(NestedOf(j)) > SumComplexity(StandaloneOf(j))

\* C3: when a depth-0 function is left with its flag false, it is evaluated
\* once on its own points alone, then each depth-1 child once, in order of
\* appearance, on its standalone list and at its own location.
C3_StandaloneEvaluations ==
  (LeftTopLevel /\ ~topLevelHasStructuralComplexity) =>
    /\ ChildRecordsInOrder(last.node)
    /\ Len(NewEvals) = 1 + Len(secondLevelFunctions)
    /\ NewEvals[1].loc = Loc(last.node, "function")
    /\ NewEvals[1].complexity = topLevelOwnComplexity
    /\ \A j \in 1..Len(secondLevelFunctions) :
         /\ NewEvals[j + 1].loc = Loc(secondLevelFunctions[j].node, "function")
         /\ NewEvals[j + 1].complexity = StandaloneOf(j)

C3_Witness ==
  /\ LeftTopLevel /\ ~topLevelHasStructuralComplexity
  /\ Len(secondLevelFunctions) = 2
  /\ Len(StandaloneOf(1)) > 0
  /\ Len(StandaloneOf(2)) > 0
  /\ StandaloneOf(1) # StandaloneOf(2)

\* the top level function in which point k was recorded is left, or point k
\* was recorded at file scope
Closed(k) ==
  \/ Len(log[k].fns) = 0
  \/ enclosingFunctions = <<>>
  \/ enclosingFunctions[1] # log[k].fns[1]

\* a structural point was recorded directly in the body of top level function f
HasOwnStructural(f) ==
  \E m \in 1..Len(log) : log[m].structural /\ log[m].fns = <<f>>

\* point k was recorded inside a function that is inside a function
InSecondLevel(k) == Len(log[k].fns) >= 2

\* the nesting unit point k gets when it is folded into its top level function
Surcharge(k) ==
  IF log[k].structural /\ InSecondLevel(k) /\ HasOwnStructural(log[k].fns[1])
    THEN 1 ELSE 0

RECURSIVE SumRecorded(_)
\* the amounts of the first k points recorded, as recorded
SumRecorded(k) == IF k = 0 THEN 0 ELSE SumRecorded(k - 1) + log[k].complexity

RECURSIVE SumCounted(_)
\* the amounts of those of the first k points whose top level function is
\* left, each with its surcharge
SumCounted(k) ==
  IF k = 0 THEN 0
  ELSE SumCounted(k - 1) + (IF Closed(k) THEN log[k].complexity + Surcharge(k) ELSE 0)

\* C4 as stated: at the end of the file the file-level total is the sum of
\* the amounts of all points recorded, at file scope or in a function, each
\* counted once, in either mode.
C4_FileTotalIsSumOfRecorded ==
  pc = "done" => fileComplexity = SumRecorded(Len(log))

\* C4 as amended: the total is the sum over all points recorded, each
\* counted once, of its amount plus one for a structural point recorded
\* inside a depth-1 function (or deeper) whose depth-0 function has a
\* structural point of its own; during the walk this holds of the points
\* whose depth-0 function is left; metrics mode reports that total.
C4_FileTotalIsSumWithSurcharge ==
  /\ fileComplexity = SumCounted(Len(log))
  /\ (pc = "done" /\ isFileComplexity) =>
       metricReport = <<[node |-> ProgramId, message |-> SumCounted(Len(log))]>>

C4_Witness ==
  /\ pc = "done"
  /\ isFileComplexity
  /\ issues = <<>>
  /\ \E k \in 1..Len(log) : Surcharge(k) = 1
  /\ \E k \in 1..Len(log) : ~log[k].structural
  /\ fileComplexity > SumRecorded(Len(log))

\* the evaluations that make a Finding
Reported(e) == ~isFileComplexity /\ e.complexityAmount > threshold

\* C5: an evaluation makes a Finding if and only if metrics mode is off and
\* the sum of the amounts is greater than the threshold (not when equal);
\* in metrics mode the only report is the file total at Program exit.
C5_FindingIffOverThreshold ==
  LET sel == SelectSeq(evals, Reported)
  IN  /\ Len(issues) = Len(sel)
      /\ \A k \in 1..Len(sel) :
           /\ issues[k].loc = sel[k].loc
           /\ issues[k].complexityAmount = sel[k].complexityAmount
           /\ issues[k].secondaryLocations = sel[k].complexity
      /\ \A k \in 1..Len(evals) :
           evals[k].complexityAmount = SumComplexity(evals[k].complexity)
      /\ isFileComplexity => issues = <<>>
      /\ Len(metricReport) = (IF pc = "done" /\ isFileComplexity THEN 1 ELSE 0)

C5_Witness ==
  /\ ~isFileComplexity
  /\ \E k \in 1..Len(evals) : evals[k].complexityAmount = threshold
  /\ \E k \in 1..Len(evals) : evals[k].complexityAmount > threshold
  /\ Len(issues) = 1

\* the two lists that hold the points of the second level function f of the
\* top level function that is open: the current ones while f is open, those
\* of its record once it is left
OwnerLists(f) ==
  IF Len(enclosingFunctions) >= 2 /\ enclosingFunctions[2] = f
    THEN [alone |-> heap[complexityIfNotNested], nested |-> heap[complexityIfNested]]
    ELSE LET j == CHOOSE j \in 1..Len(secondLevelFunctions) :
                    secondLevelFunctions[j].node = f
         IN  [alone |-> StandaloneOf(j), nested |-> NestedOf(j)]

\* point k stands once, at one place of both lists of its second level
\* function, with its amount, and with one more in the nested list if structural
OnBothLists(k) ==
  LET l == OwnerLists(log[k].fns[2])
      at == { p \in 1..Len(l.alone) : l.alone[p].seq = k }
  IN  /\ Len(l.alone) = Len(l.nested)
      /\ Cardinality(at) = 1
      /\ \A p \in at :
           /\ l.alone[p] = ComplexityPoint(log[k].complexity, log[k].location, k)
           /\ l.nested[p] = ComplexityPoint(
                  log[k].complexity + (IF log[k].structural THEN 1 ELSE 0),
                  log[k].location, k)

\* C6: a function at function depth >= 2 is never evaluated and is never the
\* location of a Finding; every point recorded inside it is put on both
\* lists of its depth-1 ancestor in the way a point of that ancestor's own
\* body is.
C6_DeepFunctionsFoldUpward ==
  /\ \A k \in 1..Len(evals) : DepthOf(evals[k].loc.node) \in {0, 1}
  /\ \A k \in 1..Len(issues) : DepthOf(issues[k].loc.node) \in {0, 1}
  /\ \A k \in 1..Len(log) : (InSecondLevel(k) /\ ~Closed(k)) => OnBothLists(k)

C6_Witness ==
  \E k \in 1..Len(log) :
    /\ Len(log[k].fns) >= 3
    /\ log[k].structural
    /\ \E m \in 1..Len(evals) :
         \E p \in 1..Len(evals[m].complexity) : evals[m].complexity[p].seq = k
    /\ \E f \in 1..Len(functions) : functions[f].depth >= 2

\* the structural points among the first p points of a list
RECURSIVE Structurals(_, _)
Structurals(L, p) ==
  IF p = 0 THEN 0
  ELSE Structurals(L, p - 1) + (IF log[L[p].seq].structural THEN 1 ELSE 0)

\* the two lists made at one second level function entry
Parallel(alone, nested) ==
  /\ Len(alone) = Len(nested)
  /\ \A p \in 1..Len(alone) :
       /\ nested[p].location = alone[p].location
       /\ nested[p].seq = alone[p].seq
       /\ nested[p].complexity =
            alone[p].complexity + (IF log[alone[p].seq].structural THEN 1 ELSE 0)
       /\ ~log[alone[p].seq].structural => alone[p].complexity = 1
  /\ SumComplexity(nested) = SumComplexity(alone) + Structurals(alone, Len(alone))

\* C7: at every moment the standalone list and the nested-fold list of a
\* depth-1 function (open, or left and kept as a child record) have the
\* same length and locations, and the nested-fold amount is the standalone
\* amount plus 1 for a structural point, the same (1) for a flat point.
C7_ParallelLists ==
  /\ Parallel(heap[complexityIfNotNested], heap[complexityIfNested])
  /\ \A j \in 1..Len(secondLevelFunctions) : Parallel(StandaloneOf(j), NestedOf(j))

C7_Witness ==
  \E j \in 1..Len(secondLevelFunctions) :
    /\ \E p \in 1..Len(StandaloneOf(j)) : log[StandaloneOf(j)[p].seq].structural
    /\ \E p \in 1..Len(StandaloneOf(j)) : ~log[StandaloneOf(j)[p].seq].structural
    /\ \E p \in 1..Len(StandaloneOf(j)) : StandaloneOf(j)[p].complexity >= 2

\* the own-point list and every standalone list
PlainLists ==
  {topLevelOwnComplexity, heap[complexityIfNotNested]}
    \cup { StandaloneOf(j) : j \in 1..Len(secondLevelFunctions) }

\* C8: a structural point put on an own-point or standalone list has the
\* amount nesting + 1 of the moment it is recorded, a flat point the amount
\* 1; so every amount is >= 1 and every total evaluated is >= 0.
C8_Amounts ==
  /\ \A k \in (last.logBefore + 1)..Len(log) :
       log[k].complexity = (IF log[k].structural THEN nesting + 1 ELSE 1)
  /\ \A L \in PlainLists : \A p \in 1..Len(L) :
       /\ L[p].complexity = log[L[p].seq].complexity
       /\ L[p].complexity \in Nat /\ L[p].complexity >= 1
       /\ ~log[L[p].seq].structural => L[p].complexity = 1
  /\ \A k \in 1..Len(evals) :
       evals[k].complexityAmount \in Nat /\ evals[k].complexityAmount >= 0

\* `if (a) { if (b) {} }` in a function: amounts 1 and 2, total 3
C8_Witness ==
  \E k \in 1..Len(evals) :
    /\ evals[k].complexityAmount = 3
    /\ Len(evals[k].complexity) = 2
    /\ evals[k].complexity[1].complexity = 1
    /\ evals[k].complexity[2].complexity = 2
    /\ evals[k].complexity[1].location.token = "if"
    /\ evals[k].complexity[2].location.token = "if"

RECURSIVE OperatorAt(_, _)
\* the operator at place p of the chain t read from left to right
OperatorAt(t, p) ==
  IF p <= Size(t[2]) THEN OperatorAt(t[2], p)
  ELSE IF p = Size(t[2]) + 1 THEN t[1]
  ELSE OperatorAt(t[3], p - Size(t[2]) - 1)

\* the places of chain t where the operator is not that of the place before
Breaks(t) ==
  { p \in 1..Size(t) : p = 1 \/ OperatorAt(t, p) # OperatorAt(t, p - 1) }

\* C9: a chain of logical nodes is scored once, when its root is visited,
\* with one flat point for each place of the chain, read left to right,
\* whose operator differs from the one before (the first place counts);
\* the visit of an inner node of the chain records nothing.
C9_ChainScoredOnceAtRoot ==
  last.kind = "LogicalExpression" =>
    /\ Len(log) - last.logBefore =
         (IF last.sort = "logical" THEN 0 ELSE Cardinality(Breaks(last.tree)))
    /\ \A k \in (last.logBefore + 1)..Len(log) :
         ~log[k].structural /\ log[k].complexity = 1

\* a && b && c || d
C9_Witness ==
  /\ last.kind = "LogicalExpression"
  /\ last.sort # "logical"
  /\ last.tree = <<"||", <<"&&", <<"&&", <<>>, <<>>>>, <<>>>>, <<>>>>
  /\ Len(log) - last.logBefore = 2

\* a list is in the order in which its points were recorded
InVisitOrder(L) == \A p \in 1..(Len(L) - 1) : L[p].seq < L[p + 1].seq

\* the lists that are kept for the functions
KeptLists ==
  PlainLists \cup {heap[complexityIfNested]}
    \cup { NestedOf(j) : j \in 1..Len(secondLevelFunctions) }

\* C10 as stated: in every own-point, standalone and nested-fold list and
\* in the point list of every Finding, a point recorded earlier precedes a
\* point recorded later.
C10_AllListsInVisitOrder ==
  /\ \A L \in KeptLists : InVisitOrder(L)
  /\ \A k \in 1..Len(issues) : InVisitOrder(issues[k].secondaryLocations)

\* point pt was recorded in the body of a top level function itself
IsOwnPoint(pt) == Len(log[pt.seq].fns) = 1

\* C10 as amended: every own-point, standalone and nested-fold list is in
\* visit order; the list of a Finding holds the own points of the function
\* first, in visit order, then the points of its depth-1 children, in visit
\* order.
C10_FindingOwnPointsFirst ==
  /\ \A L \in KeptLists : InVisitOrder(L)
  /\ \A k \in 1..Len(issues) :
       LET L == issues[k].secondaryLocations
       IN  \A p, q \in 1..Len(L) :
             p < q =>
               /\ IsOwnPoint(L[p]) = IsOwnPoint(L[q]) => L[p].seq < L[q].seq
               /\ IsOwnPoint(L[q]) => IsOwnPoint(L[p])

C10_Witness ==
  \E k \in 1..Len(issues) :
    /\ ~InVisitOrder(issues[k].secondaryLocations)
    /\ \E p \in 1..Len(issues[k].secondaryLocations) :
         ~IsOwnPoint(issues[k].secondaryLocations[p])

\* the node entered last is an `if` with an alternate that is no `if`
HasElse == \E j \in 1..Len(Top.fixed) : Top.fixed[j].sort = "else"

\* the points of the step taken last
NewPoints == SubSeq(log, last.logBefore + 1, Len(log))

\* the open node the node entered last is a child of
Parent == stack[Len(stack) - 1]

\* C11: in an if / else-if / else chain whose first `if` is at nesting
\* depth n the first `if` records one structural point of amount n + 1,
\* every `else if` one flat point of amount 1, a last `else` that is no
\* `if` one flat point of amount 1; an `else if` does not raise the
\* nesting, and the consequent of the first `if`, of every `else if` and
\* the last else are entered at nesting depth n + 1.
C11_IfChain ==
  /\ (last.op = "enter" /\ last.kind = "IfStatement") =>
       /\ Len(NewPoints) = 1 + (IF HasElse THEN 1 ELSE 0)
       /\ NewPoints[1].location = Loc(last.node, "if")
       /\ IF last.sort = "elseif"
            THEN /\ ~NewPoints[1].structural
                 /\ NewPoints[1].complexity = 1
                 /\ nesting = last.nestingBefore
                 /\ last.node \notin nestingNodes
            ELSE /\ NewPoints[1].structural
                 /\ NewPoints[1].complexity = nesting + 1
                 /\ Top.chainDepth = nesting
       /\ HasElse =>
            /\ ~NewPoints[2].structural
            /\ NewPoints[2].complexity = 1
            /\ NewPoints[2].location = Loc(last.node, "else")
  /\ (last.op = "enter" /\ last.sort \in {"stmt", "else"}) =>
       nesting = Parent.chainDepth + 1

\* the part of C11 that is about the points of an `if` alone
C11_IfPoints ==
  (last.op = "enter" /\ last.kind = "IfStatement") =>
    /\ Len(NewPoints) = 1 + (IF HasElse THEN 1 ELSE 0)
    /\ \A k \in 1..Len(NewPoints) :
         NewPoints[k].complexity =
           (IF k = 1 /\ last.sort # "elseif" THEN nesting + 1 ELSE 1)

\* the points of a step, seen from the state before it
Recorded == SubSeq(log', Len(log) + 1, Len(log'))

\* the sequence numbers of the points recorded at file scope
FileScopePoints == { k \in 1..Len(log) : log[k].fns = <<>> }

\* a list holds none of the points recorded at file scope
NoFileScopePoint(L) == \A p \in 1..Len(L) : L[p].seq \notin FileScopePoints

\* a step that records at file scope adds the amounts to fileComplexity and
\* writes nothing else of the rule's state
FileScopeStep ==
  (enclosingFunctions = <<>> /\ Len(log') > Len(log)) =>
    /\ fileComplexity' = fileComplexity + SumComplexity(Recorded)
    /\ UNCHANGED <<topLevelOwnComplexity, topLevelHasStructuralComplexity, heap,
                   complexityIfNested, complexityIfNotNested, secondLevelFunctions,
                   enclosingFunctions, issues, evals, metricReport>>

\* C12: a point recorded at file scope adds its amount to the file total
\* at once and changes nothing else: it goes to no function list, does not
\* set the flag, and is in the point list of no evaluation and no Finding.
C12_FileScopePoints ==
  /\ [][FileScopeStep]_vars
  /\ [](/\ \A k \in 1..Len(evals) : NoFileScopePoint(evals[k].complexity)
        /\ NoFileScopePoint(topLevelOwnComplexity)
        /\ \A h \in 1..Len(heap) : NoFileScopePoint(heap[h]))

\* an `if` at file scope, after a function that was reported
C12_Witness ==
  /\ last.fnsBefore = <<>>
  /\ Len(NewPoints) >= 1
  /\ fileComplexity = last.fileBefore + SumComplexity(NewPoints)
  /\ Len(issues) >= 1
  /\ topLevelOwnComplexity # <<>>

\* the checkFunction calls of a step, seen from the state before it
Evaluated == SubSeq(evals', Len(evals) + 1, Len(evals'))

\* a step evaluates or reports only when it leaves a top level function
EvaluatesAtTopLevelExit ==
  (evals' # evals \/ issues' # issues) =>
    /\ Len(enclosingFunctions) = 1
    /\ enclosingFunctions' = <<>>
    /\ Evaluated[1].loc.node = enclosingFunctions[1]
    /\ \A k \in 2..Len(Evaluated) :
         \E j \in 1..Len(secondLevelFunctions) :
           secondLevelFunctions[j].node = Evaluated[k].loc.node

\* a step that ends with a function open leaves the file total alone
NoTotalInsideFunction ==
  enclosingFunctions' # <<>> => fileComplexity' = fileComplexity

\* the exit of a second level function stores one record and nothing else
SecondLevelExit ==
  (Len(enclosingFunctions) = 2 /\ Len(enclosingFunctions') = 1) =>
    /\ Len(secondLevelFunctions') = Len(secondLevelFunctions) + 1
    /\ SubSeq(secondLevelFunctions', 1, Len(secondLevelFunctions)) = secondLevelFunctions
    /\ Last(secondLevelFunctions').node = enclosingFunctions[2]
    /\ UNCHANGED <<issues, evals, fileComplexity, topLevelOwnComplexity,
                   topLevelHasStructuralComplexity, heap, metricReport>>

\* C13: nothing is evaluated while a function is open.  The exit of a
\* depth-1 function only appends one child record, with no Finding and no
\* change of the file total; the evaluations of a depth-0 function and of
\* its depth-1 children are all made at the exit of the depth-0 function,
\* that of the depth-0 function first.
C13_EvaluationAtTopLevelExit ==
  [][EvaluatesAtTopLevelExit /\ NoTotalInsideFunction /\ SecondLevelExit]_vars

\* a depth-0 function is left, evaluated before its two depth-1 children,
\* one of which is reported
C13_Witness ==
  /\ LeftTopLevel
  /\ Len(NewEvals) = 3
  /\ NewEvals[1].loc.node = last.node
  /\ NewEvals[2].loc.node = secondLevelFunctions[1].node
  /\ NewEvals[3].loc.node = secondLevelFunctions[2].node
  /\ Len(issues) > last.issuesBefore

\* the open nodes, and the children named by an open node and not yet entered
OpenNodes == { stack[k].id : k \in 1..Len(stack) }
NamedChildren ==
  UNION { { stack[k].fixed[j].id : j \in 1..Len(stack[k].fixed) } : k \in 1..Len(stack) }

\* the part of C14 that is about the set alone: a node is in nestingNodes
\* only from the handling of its parent (or its own entry) to its own exit
C14_SetIsTransient ==
  /\ nestingNodes \subseteq (OpenNodes \cup NamedChildren) \ {NoId}
  /\ pc = "done" => nestingNodes = {} /\ enclosingFunctions = <<>>

\* C14: a node is in nestingNodes only between the handling of its parent
\* construct (or its own function entry) and its own exit, and at the end
\* of the walk nestingNodes is empty, enclosingFunctions is empty and
\* nesting is 0.
C14_TransientNesting ==
  /\ nestingNodes \subseteq (OpenNodes \cup NamedChildren) \ {NoId}
  /\ pc = "done" =>
       /\ nestingNodes = {}
       /\ enclosingFunctions = <<>>
       /\ nesting = 0

\* C15: two walks of one tree with the same threshold and mode, each from a
\* freshly initialised state, hand over the same Findings (locations,
\* totals, point lists), the same metric report and the same file total.
C15_SameTwice ==
  /\ (run = 2 /\ pc = "done") => Handed = first
  /\ (run = 2 /\ pc # "done") => script # <<>>

\* a second walk is over, of a tree with a Finding that has the point of a
\* logical expression
C15_Witness ==
  /\ run = 2
  /\ pc = "done"
  /\ script = <<>>
  /\ Len(first.issues) >= 1
  /\ consideredLogicalExpressions # {}
  /\ first.fileComplexity >= 2

\* the chain whose root was entered last, flattened
LastChain ==
  flattenLogicalExpression(last.tree, last.node, nextId - Size(last.tree) + 1)

\* the nodes of that chain at which the operator changes, in order
ChangeNodes ==
  LET at == SelectSeq([k \in 1..Len(LastChain) |-> k],
                      LAMBDA k : OperatorChanges(LastChain, k))
  IN  [p \in 1..Len(at) |-> LastChain[at[p]].node]

\* C16: each flat point of a chain of logical nodes is located at the
\* operator of the node of the chain at which the operator changes (the
\* token after the left operand of that node), so two points of one chain
\* have different locations.
C16_PointsAtOperators ==
  (last.op = "enter" /\ last.kind = "LogicalExpression" /\ last.sort # "logical") =>
    /\ Len(NewPoints) = Len(ChangeNodes)
    /\ \A p \in 1..Len(NewPoints) :
         NewPoints[p].location = Loc(ChangeNodes[p], "operator")
    /\ \A p, q \in 1..Len(NewPoints) :
         p # q => NewPoints[p].location # NewPoints[q].location

\* what holds instead: every point of a chain is located at the operator
\* of the root of the chain
C16_PointsAtRootOperator ==
  (last.op = "enter" /\ last.kind = "LogicalExpression" /\ last.sort # "logical") =>
    /\ Len(NewPoints) = Len(ChangeNodes)
    /\ \A p \in 1..Len(NewPoints) :
         NewPoints[p].location = Loc(last.node, "operator")

\* the functions entered at depth 1 in the top level function entered last
ChildEntries ==
  { k \in (TopIndex + 1)..Len(functions) : functions[k].depth = 1 }

\* C17: when a depth-0 function is left with its flag false, so that each
\* depth-1 child is evaluated on its standalone list, every child was
\* entered at the nesting depth at which the depth-0 function was entered,
\* whatever its earlier siblings hold; the amounts of its standalone list
\* are then those of a depth-0 function walked in the parent's place.
C17_ChildEntersAtParentNesting ==
  (LeftTopLevel /\ ~topLevelHasStructuralComplexity) =>
    \A k \in ChildEntries : functions[k].nesting = functions[TopIndex].nesting

\* a step that enters a top level function
TopLevelEntry == enclosingFunctions = <<>> /\ Len(enclosingFunctions') = 1

\* a point recorded inside a second level function, or deeper, leaves the
\* own points and the flag of the top level function alone
DeepPointFrame ==
  (Len(enclosingFunctions) >= 2 /\ Len(log') > Len(log)) =>
    UNCHANGED <<topLevelOwnComplexity, topLevelHasStructuralComplexity,
                secondLevelFunctions>>

\* a point recorded in the body of the top level function leaves the lists
\* of every second level function alone
OwnPointFrame ==
  (Len(enclosingFunctions) = 1 /\ Len(log') > Len(log)) =>
    UNCHANGED <<heap, complexityIfNested, complexityIfNotNested, secondLevelFunctions>>

\* the flag stays set, and the own points and the records stay, up to the
\* next entry of a top level function, which resets the three
FlagUntilReset ==
  IF TopLevelEntry
    THEN /\ topLevelHasStructuralComplexity' = FALSE
         /\ topLevelOwnComplexity' = <<>>
         /\ secondLevelFunctions' = <<>>
    ELSE /\ topLevelHasStructuralComplexity => topLevelHasStructuralComplexity'
         /\ Len(topLevelOwnComplexity') >= Len(topLevelOwnComplexity)
         /\ Len(secondLevelFunctions') >= Len(secondLevelFunctions)

\* C18: a point recorded inside a depth-1 or deeper function never changes
\* the own-point list or the flag of the depth-0 function, a point recorded
\* in the body of the depth-0 function never changes the lists of a depth-1
\* child; the flag, once set, stays set until the next depth-0 function
\* entry, which resets the flag, the own-point list and the child records.
C18_FrameOfLevels ==
  [][DeepPointFrame /\ OwnPointFrame /\ FlagUntilReset]_vars

\* a second depth-0 function is entered after one that had the flag set,
\* points of its own and a child with points
C18_Witness ==
  /\ last.op = "enter" /\ last.kind = "Function" /\ last.fnsBefore = <<>>
  /\ ~topLevelHasStructuralComplexity
  /\ topLevelOwnComplexity = <<>>
  /\ secondLevelFunctions = <<>>
  /\ \E k \in 1..Len(evals) :
       /\ \E p \in 1..Len(evals[k].complexity) : IsOwnPoint(evals[k].complexity[p])
       /\ \E p \in 1..Len(evals[k].complexity) : ~IsOwnPoint(evals[k].complexity[p])

\* the record stored for a second level function and its two lists are the
\* same after a step
RecordKept(j) ==
  /\ Len(secondLevelFunctions') >= j
  /\ secondLevelFunctions'[j] = secondLevelFunctions[j]
  /\ heap'[secondLevelFunctions[j].complexityIfNested] = NestedOf(j)
  /\ heap'[secondLevelFunctions[j].complexityIfThisSecondaryIsTopLevel] = StandaloneOf(j)

\* C19: once a depth-1 function is left and its record stored, the two
\* lists of the record never change: no step up to the exit of the depth-0
\* function (entering, walking and leaving later depth-1 siblings and the
\* functions in them) changes them.  The records go at the next depth-0
\* function entry.
C19_RecordsAreFrozen ==
  [][~TopLevelEntry => \A j \in 1..Len(secondLevelFunctions) : RecordKept(j)]_vars

\* a later sibling records a point after the record of the first child,
\* which has points, is stored
C19_Witness ==
  /\ Len(secondLevelFunctions) >= 1
  /\ StandaloneOf(1) # <<>>
  /\ Len(enclosingFunctions) >= 2
  /\ Len(NewPoints) >= 1
  /\ heap[complexityIfNotNested] # <<>>
  /\ heap[complexityIfNotNested] # StandaloneOf(1)

====
